---- MODULE Spec2Model ----
(***************************************************************************)
(* A model of DWIConverter (src/DWIConvert/DWIConverter.h): the gradient   *)
(* table transforms, the 3D <-> 4D reshaping and the two serialization     *)
(* operations of the DWI conversion core.                                  *)
(*                                                                         *)
(* Numbers.  A double is modelled as a fixed-point number: the integer x   *)
(* stands for the real x / Unit.  A float is a double rounded to a         *)
(* multiple of FloatStep.  b-values and measurement-frame entries are      *)
(* whole numbers and are kept as plain integers.                           *)
(***************************************************************************)
EXTENDS Integers, Sequences, FiniteSets, TLC

(***************************************************************************)
(* Bounds of the model.                                                    *)
(***************************************************************************)
MaxVolumes == 2
MaxDim == 2
MaxSlices == 4
MaxB == 200

(***************************************************************************)
(* Arithmetic on the fixed-point representation.                           *)
(***************************************************************************)
Unit == 10000
FloatStep == 10

Abs(x) == IF x < 0 THEN -x ELSE x

\* a / b rounded to the nearest integer, halves away from zero (b > 0)
RoundDiv(a, b) ==
  IF a >= 0 THEN (2 * a + b) \div (2 * b) ELSE -((2 * (-a) + b) \div (2 * b))

RECURSIVE SqrtSearch(_, _, _)
SqrtSearch(n, lo, hi) ==
  IF lo >= hi THEN lo
  ELSE LET mid == (lo + hi + 1) \div 2
       IN IF mid * mid <= n THEN SqrtSearch(n, mid, hi)
          ELSE SqrtSearch(n, lo, mid - 1)

\* std::sqrt on the integers: the nearest integer to the square root of n
ISqrt(n) ==
  LET r == SqrtSearch(n, 0, 46340)
  IN IF n - r * r > r THEN r + 1 ELSE r

\* double * double
DMul(a, b) == RoundDiv(a * b, Unit)
\* std::sqrt of a double
DSqrt(a) == ISqrt(a * Unit)
\* the conversion double -> float
ToFloat(a) == RoundDiv(a, FloatStep) * FloatStep
\* a * b / Unit for a wide a, rounded once
MulWide(a, b) == (a \div Unit) * b + RoundDiv((a % Unit) * b, Unit)
\* itk::Math::Round<double> of a fixed-point number: the nearest whole number
Round(a) == RoundDiv(a, Unit)

(***************************************************************************)
(* Vectors and 3x3 matrices.                                               *)
(***************************************************************************)
Identity == << <<1, 0, 0>>, <<0, 1, 0>>, <<0, 0, 1>> >>

Others(i) == CASE i = 1 -> <<2, 3>> [] i = 2 -> <<1, 3>> [] OTHER -> <<1, 2>>

Cofactor(M, i, j) ==
  LET r == Others(i)
      c == Others(j)
      minor == M[r[1]][c[1]] * M[r[2]][c[2]] - M[r[1]][c[2]] * M[r[2]][c[1]]
  IN IF (i + j) % 2 = 0 THEN minor ELSE -minor

Determinant(M) ==
  M[1][1] * Cofactor(M, 1, 1) + M[1][2] * Cofactor(M, 1, 2)
    + M[1][3] * Cofactor(M, 1, 3)

ExactDiv(a, d) ==
  IF d > 0 THEN (IF a >= 0 THEN a \div d ELSE -((-a) \div d))
  ELSE (IF a >= 0 THEN -(a \div (-d)) ELSE (-a) \div (-d))

\* itk::Matrix::GetInverse of a non-singular matrix
GetInverse(M) ==
  [i \in 1..3 |-> [j \in 1..3 |-> ExactDiv(Cofactor(M, j, i), Determinant(M))]]

\* matrix * vector
MatVec(M, v) ==
  [i \in 1..3 |-> M[i][1] * v[1] + M[i][2] * v[2] + M[i][3] * v[3]]

SquaredMagnitude(v) == v[1] * v[1] + v[2] * v[2] + v[3] * v[3]

\* vnl_vector_fixed::magnitude
Magnitude(v) == ISqrt(SquaredMagnitude(v))

\* vnl_vector_fixed::normalize: a zero vector is left as it is
Normalize(v) ==
  IF SquaredMagnitude(v) = 0 THEN v
  ELSE [i \in 1..3 |-> RoundDiv(v[i] * Unit, Magnitude(v))]

(***************************************************************************)
(* The gradient table transforms, as functions of the table.               *)
(***************************************************************************)
RECURSIVE MaxFrom(_, _, _)
MaxFrom(bValues, k, maxBvalue) ==
  IF k > Len(bValues) THEN maxBvalue
  ELSE MaxFrom(bValues, k + 1,
               IF bValues[k] > maxBvalue THEN bValues[k] ELSE maxBvalue)

ComputeMaxBvalue(bValues) == MaxFrom(bValues, 1, 0)

\* m_BValues[k]; beyond the end of the list the read is out of bounds and
\* yields whatever the memory holds (garbage)
BValueAt(bValues, k, garbage) ==
  IF k <= Len(bValues) THEN bValues[k] ELSE garbage

\* ScaleFactor without the square root
ScaleFactorNoSqrt(bValue, maxBvalue) ==
  IF maxBvalue > 0 THEN ToFloat(RoundDiv(bValue * Unit, maxBvalue)) ELSE 0

ScaleFactor(bValue, maxBvalue) ==
  IF maxBvalue > 0 THEN ToFloat(DSqrt(RoundDiv(bValue * Unit, maxBvalue)))
  ELSE 0

ScaledVector(v, scaleFactor) == [ind \in 1..3 |-> DMul(v[ind], scaleFactor)]

\* the loop of ConvertToSingleBValueScaledDiffusionVectors: the new vectors
SingleBValueVectors(vectors, bValues, garbage) ==
  LET maxBvalue == ComputeMaxBvalue(bValues)
  IN [k \in 1..Len(vectors) |->
        ScaledVector(vectors[k],
                     ScaleFactor(BValueAt(bValues, k, garbage), maxBvalue))]

\* SingleBValueBValues without the assignment m_BValues[k] = maxBvalue
KeptBValues(vectors, bValues) == bValues

\* ... and the new b-values: entry k is written for every vector k; a write
\* beyond the end of the list does not lengthen it
SingleBValueBValues(vectors, bValues) ==
  LET maxBvalue == ComputeMaxBvalue(bValues)
  IN [k \in 1..Len(bValues) |->
        IF k <= Len(vectors) THEN maxBvalue ELSE bValues[k]]

\* SnappedMagnitude without the snap to 1
UnsnappedMagnitude(v) == Magnitude(v)

\* the magnitude used by ConvertToMutipleBValuesUnitScaledBVectors
SnappedMagnitude(v) ==
  LET mag == Magnitude(v)
  IN IF Abs(DMul(mag, mag) - Unit) * 100 < Unit THEN Unit ELSE mag

\* MultipleBValue with the product cut off instead of rounded
MultipleBValueTruncated(v, maxBvalue) ==
  LET mag == SnappedMagnitude(v)
  IN MulWide(maxBvalue * mag, mag) \div Unit

MultipleBValue(v, maxBvalue) ==
  LET mag == SnappedMagnitude(v)
  IN Round(MulWide(maxBvalue * mag, mag))

MultipleBValuesVectors(vectors) ==
  [k \in 1..Len(vectors) |-> Normalize(vectors[k])]

MultipleBValuesBValues(vectors, bValues) ==
  LET maxBvalue == ComputeMaxBvalue(bValues)
  IN [k \in 1..Len(bValues) |->
        IF k <= Len(vectors) THEN MultipleBValue(vectors[k], maxBvalue)
        ELSE bValues[k]]

\* IdentityFrameVectors with the frame in place of its inverse
FrameVectors(vectors, frame) ==
  [k \in 1..Len(vectors) |-> MatVec(frame, vectors[k])]

IdentityFrameVectors(vectors, frame) ==
  LET InverseMeasurementFrame == GetInverse(frame)
  IN [k \in 1..Len(vectors) |-> MatVec(InverseMeasurementFrame, vectors[k])]

(***************************************************************************)
(* Images.  A 3D image has size, spacing, origin (3 entries each), a 3x3   *)
(* direction, a sample buffer and a metadata dictionary; a 4D image has    *)
(* 4 entries each and a 4x4 direction.  A pointer to an image is a         *)
(* sequence of at most one image (<<>> is the null pointer).               *)
(***************************************************************************)
Rz90 == << <<0, -1, 0>>, <<1, 0, 0>>, <<0, 0, 1>> >>
Rz180 == << <<-1, 0, 0>>, <<0, -1, 0>>, <<0, 0, 1>> >>

Geometry(g) ==
  IF g = 1
  THEN [spacing |-> <<2, 2, 3>>, origin |-> <<-10, 5, 7>>,
        direction |-> Identity, meta |-> {}, seed |-> 100]
  ELSE [spacing |-> <<1, 1, 2>>, origin |-> <<0, 0, 0>>,
        direction |-> Rz90,
        meta |-> {<<"qform_code_name", "NIFTI_XFORM_UNKNOWN">>},
        seed |-> 200]

Vol3D(cols, rows, slices, g) ==
  [size |-> <<cols, rows, slices>>,
   spacing |-> Geometry(g).spacing,
   origin |-> Geometry(g).origin,
   direction |-> Geometry(g).direction,
   buffer |-> [i \in 1..(cols * rows * slices) |-> Geometry(g).seed + i],
   meta |-> Geometry(g).meta]

\* the 3D images a caller may pass: slices that are not square, of either
\* orientation
Shapes == {<<1, MaxDim>>, <<MaxDim, 1>>}

Volumes3D ==
  {Vol3D(shape[1], shape[2], s, g) : shape \in Shapes, s \in 1..MaxSlices,
                                     g \in 1..2}

NumberOfPixels(size) ==
  IF Len(size) = 3 THEN size[1] * size[2] * size[3]
  ELSE size[1] * size[2] * size[3] * size[4]

\* itk::EncapsulateMetaData: sets the entry of one key
EncapsulateMetaData(dic, key, value) ==
  {p \in dic : p[1] # key} \cup {<<key, value>>}

StampXForm(dic) ==
  EncapsulateMetaData(
    EncapsulateMetaData(dic, "qform_code_name", "NIFTI_XFORM_SCANNER_ANAT"),
    "sform_code_name", "NIFTI_XFORM_SCANNER_ANAT")

\* memcpy(dst, src, bytecount): the first n samples of dst are those of src
Memcpy(dst, src, n) == [i \in 1..Len(dst) |-> IF i <= n THEN src[i] ELSE dst[i]]

\* a freshly allocated buffer: its content is indeterminate
Allocate(n) == [i \in 1..n |-> 0]

\* ThreeDToFourDImage past its divisibility check (the first 3 rows and
\* columns of the direction, and the first 3 entries of the spacing and the
\* origin, are those of the 3D image; the rest are the identity, 1.0 and 0.0)
Wrap4D(img, nVolumes) ==
  LET size4D == <<img.size[1], img.size[2], img.size[3] \div nVolumes, nVolumes>>
      bytecount == NumberOfPixels(size4D)
  IN [size |-> size4D,
      spacing |-> [i \in 1..4 |-> IF i <= 3 THEN img.spacing[i] ELSE 1],
      origin |-> [i \in 1..4 |-> IF i <= 3 THEN img.origin[i] ELSE 0],
      direction |-> [i \in 1..4 |-> [j \in 1..4 |->
                       IF i <= 3 /\ j <= 3 THEN img.direction[i][j]
                       ELSE IF i = j THEN 1 ELSE 0]],
      buffer |-> Memcpy(Allocate(NumberOfPixels(size4D)), img.buffer, bytecount),
      meta |-> StampXForm(img.meta)]

\* Unwrap3D with the spacing left at its initial 1.0
Unwrap3DUnitSpacing(img4D) ==
  LET nVolumes == img4D.size[4]
      size3D == <<img4D.size[1], img4D.size[2], img4D.size[3] * nVolumes>>
      bytecount == NumberOfPixels(size3D)
  IN [size |-> size3D,
      spacing |-> [i \in 1..3 |-> 1],
      origin |-> [i \in 1..3 |-> img4D.origin[i]],
      direction |-> [i \in 1..3 |-> [j \in 1..3 |-> img4D.direction[i][j]]],
      buffer |-> Memcpy(Allocate(NumberOfPixels(size3D)), img4D.buffer, bytecount),
      meta |-> StampXForm(img4D.meta)]

\* FourDToThreeDImage
Unwrap3D(img4D) ==
  LET nVolumes == img4D.size[4]
      size3D == <<img4D.size[1], img4D.size[2], img4D.size[3] * nVolumes>>
      bytecount == NumberOfPixels(size3D)
  IN [size |-> size3D,
      spacing |-> [i \in 1..3 |-> img4D.spacing[i]],
      origin |-> [i \in 1..3 |-> img4D.origin[i]],
      direction |-> [i \in 1..3 |-> [j \in 1..3 |-> img4D.direction[i][j]]],
      buffer |-> Memcpy(Allocate(NumberOfPixels(size3D)), img4D.buffer, bytecount),
      meta |-> StampXForm(img4D.meta)]

(***************************************************************************)
(* The inputs.                                                             *)
(***************************************************************************)
Zero == <<0, 0, 0>>
V68 == <<6000, 8000, 0>>
Half == <<3000, 4000, 0>>
Near == <<9960, 0, 0>>
AxisX == <<10000, 0, 0>>

VecSeq == <<Zero, V68, Half, Near>>
BSet == {0, MaxB \div 2, MaxB}

\* the gradient lists of length n: the catalogue of vectors, cyclically
\* shifted, so that every vector occurs at every index
VectorLists(n) ==
  {[k \in 1..n |-> VecSeq[((k + p - 2) % Len(VecSeq)) + 1]] : p \in 1..Len(VecSeq)}

\* a b-value so large that the single-precision scale factor no longer
\* resolves one unit of it
BigB == 10 * MaxB

BValueLists(n) == [1..n -> BSet]

\* the b-values of a table of two unit vectors: two shells, a b-value within
\* 1% of the largest one, and large b-values
CloseBValueLists ==
  {<<MaxB \div 2, MaxB>>, <<MaxB - 1, MaxB>>, <<BigB \div 2 + 1, BigB>>}

\* the gradient tables of n volumes a series may hold
Tables(n) ==
  (VectorLists(n) \X BValueLists(n))
    \cup (IF n = 2 THEN {<<V68, AxisX>>} \X CloseBValueLists ELSE {})

Frames == {Identity, Rz90, Rz180}

\* the lists an FSL file may hold: any number of entries, the first one a
\* baseline
FileBValues == {[k \in 1..n |-> IF k = 1 THEN 0 ELSE MaxB] : n \in 0..(MaxVolumes + 1)}
FileBVectors == {[k \in 1..n |-> IF k = 1 THEN Zero ELSE V68] : n \in 0..(MaxVolumes + 1)}

\* the common DICOM fields of the series, in the order of their keys (the
\* order in which a std::map is walked)
DicomFields ==
  << <<"DICOM_0008_0060", "MR">>, <<"DICOM_0008_0070", "VENDOR">> >>

\* the lists a caller may pass to SetBValues: of any length
SetBValuesInputs ==
  {[k \in 1..n |-> MaxB] : n \in 0..(MaxVolumes + 1)}
    \cup {[k \in 1..n |-> IF k = 1 THEN 0 ELSE MaxB \div 2] : n \in 1..MaxVolumes}

(***************************************************************************)
(* File names.  A name is a sequence of pieces ("dwi", ".nii", ".gz");     *)
(* std::string::find looks for the pieces of an extension in a row and     *)
(* gives the position of the first place they occur, or npos.              *)
(***************************************************************************)
npos == -1

Find(name, ext) ==
  LET hits == {i \in 0..(Len(name) - Len(ext)) :
                 SubSeq(name, i + 1, i + Len(ext)) = ext}
  IN IF hits = {} THEN npos
     ELSE CHOOSE i \in hits : \A j \in hits : i <= j

\* name.substr(0, pos)
Substr0(name, pos) == SubSeq(name, 1, pos)

extList == << <<".nii", ".gz">>, <<".nii">> >>

RECURSIVE FirstExtension(_, _)
FirstExtension(name, i) ==
  IF i > Len(extList) THEN npos
  ELSE IF Find(name, extList[i]) # npos THEN Find(name, extList[i])
  ELSE FirstExtension(name, i + 1)

\* has_valid_nifti_extension: the position of the extension, or npos where
\* the function ends the process with exit(1)
has_valid_nifti_extension(name) == FirstExtension(name, 1)

\* the formats itk::ImageFileWriter has an ImageIO for, by the last piece of
\* the name
ImageIOExtensions == {".nii", ".gz", ".nrrd", ".nhdr"}
CanWriteImage(name) == Len(name) > 0 /\ name[Len(name)] \in ImageIOExtensions

OutputNames ==
  {<<"dwi", ".nii", ".gz">>, <<"dwi", ".nii">>, <<"dwi", ".nrrd">>,
   <<"dwi", ".nhdr">>, <<"dwi", ".xyz">>}

(***************************************************************************)
(* The state: the converter's members, and h, the record of the call that  *)
(* has just returned (what it was called with, the members before it, how  *)
(* it ended, what it did to the file system and what it returned).  The    *)
(* caller either makes its next call on what the call left (a chained      *)
(* call, which keeps the table the first call started from) or drops the   *)
(* record (Return).  Once a call has run into undefined behaviour nothing  *)
(* more is said about the converter.                                       *)
(***************************************************************************)
VARIABLES m_SlicesPerVolume, m_NVolume, m_Volume, m_MeasurementFrame,
          m_BValues, m_DiffusionVectors, m_CommonDicomFieldsMap, h

members == <<m_SlicesPerVolume, m_NVolume, m_Volume, m_MeasurementFrame,
             m_BValues, m_DiffusionVectors, m_CommonDicomFieldsMap>>
vars == <<m_SlicesPerVolume, m_NVolume, m_Volume, m_MeasurementFrame,
          m_BValues, m_DiffusionVectors, m_CommonDicomFieldsMap, h>>

NoCall ==
  [op |-> "", prevOp |-> "",
   preVectors |-> <<>>, preBValues |-> <<>>, preFrame |-> Identity,
   origVectors |-> <<>>, origBValues |-> <<>>, origFrame |-> Identity,
   result |-> "ok", ub |-> FALSE,
   name |-> <<>>, io |-> <<>>, writerThrew |-> FALSE, sidecarFailed |-> FALSE,
   readB |-> <<>>, readV |-> <<>>,
   argImg |-> <<>>, origImg |-> <<>>, ret |-> <<>>,
   header |-> <<>>, data |-> <<>>]

TableOps ==
  {"ConvertToSingleBValueScaledDiffusionVectors",
   "ConvertToMutipleBValuesUnitScaledBVectors",
   "ConvertBVectorsToIdentityMeasurementFrame"}

Idle == h.op = "" /\ m_Volume # <<>>

\* a table operation is called by an idle caller, or right after another
\* table operation returned
MayCall == Idle \/ (h.op \in TableOps /\ h.prevOp = "" /\ ~h.ub /\ h.result = "ok")

\* the record of a call that starts now
Call(op) ==
  [NoCall EXCEPT
     !.op = op, !.prevOp = h.op,
     !.preVectors = m_DiffusionVectors, !.preBValues = m_BValues,
     !.preFrame = m_MeasurementFrame,
     !.origVectors = IF h.op = "" THEN m_DiffusionVectors ELSE h.preVectors,
     !.origBValues = IF h.op = "" THEN m_BValues ELSE h.preBValues,
     !.origFrame = IF h.op = "" THEN m_MeasurementFrame ELSE h.preFrame]

Init ==
  /\ m_SlicesPerVolume = 0
  /\ m_NVolume = 0
  /\ m_Volume = <<>>
  /\ m_MeasurementFrame = Identity
  /\ m_BValues = <<>>
  /\ m_DiffusionVectors = <<>>
  /\ m_CommonDicomFieldsMap = <<>>
  /\ h = NoCall

\* LoadFromDisk and ExtractDWIData of a scanner-specific subclass: they fill
\* the data model with a volume and a gradient table that agree
LoadFromDisk ==
  /\ h.op = ""
  /\ m_Volume = <<>>
  /\ \E n \in 1..MaxVolumes :
       /\ m_NVolume' = n
       /\ m_SlicesPerVolume' = 2
       /\ m_Volume' = <<Vol3D(1, MaxDim, n * 2, 1)>>
       /\ \E table \in Tables(n) :
            /\ m_DiffusionVectors' = table[1]
            /\ m_BValues' = table[2]
  /\ \E frame \in Frames : m_MeasurementFrame' = frame
  /\ m_CommonDicomFieldsMap' = DicomFields
  /\ h' = NoCall

\* the caller drops the record of the call
Return ==
  /\ h.op # ""
  /\ ~h.ub
  /\ h' = NoCall
  /\ UNCHANGED members

(***************************************************************************)
(* The gradient table operations.                                          *)
(***************************************************************************)
ConvertToSingleBValueScaledDiffusionVectors ==
  /\ MayCall
  /\ \E garbage \in (IF Len(m_BValues) < Len(m_DiffusionVectors)
                     THEN {0, MaxB} ELSE {0}) :
       m_DiffusionVectors' =
         SingleBValueVectors(m_DiffusionVectors, m_BValues, garbage)
  /\ m_BValues' = SingleBValueBValues(m_DiffusionVectors, m_BValues)
  /\ h' = [Call("ConvertToSingleBValueScaledDiffusionVectors") EXCEPT
             !.ub = Len(m_BValues) < Len(m_DiffusionVectors)]
  /\ UNCHANGED <<m_SlicesPerVolume, m_NVolume, m_Volume, m_MeasurementFrame,
                 m_CommonDicomFieldsMap>>

ConvertToMutipleBValuesUnitScaledBVectors ==
  /\ MayCall
  /\ m_DiffusionVectors' = MultipleBValuesVectors(m_DiffusionVectors)
  /\ m_BValues' = MultipleBValuesBValues(m_DiffusionVectors, m_BValues)
  /\ h' = [Call("ConvertToMutipleBValuesUnitScaledBVectors") EXCEPT
             !.ub = Len(m_BValues) < Len(m_DiffusionVectors)]
  /\ UNCHANGED <<m_SlicesPerVolume, m_NVolume, m_Volume, m_MeasurementFrame,
                 m_CommonDicomFieldsMap>>

\* SetBValues that also sets the measurement frame to the identity
SetBValuesResettingFrame ==
  /\ Idle
  /\ \E inBValues \in SetBValuesInputs :
       /\ m_BValues' = inBValues
       /\ h' = [Call("SetBValues") EXCEPT !.readB = inBValues]
  /\ m_MeasurementFrame' = Identity
  /\ UNCHANGED <<m_SlicesPerVolume, m_NVolume, m_Volume,
                 m_DiffusionVectors, m_CommonDicomFieldsMap>>

SetBValues ==
  /\ Idle
  /\ \E inBValues \in SetBValuesInputs :
       /\ m_BValues' = inBValues
       /\ h' = [Call("SetBValues") EXCEPT !.readB = inBValues]
  /\ UNCHANGED <<m_SlicesPerVolume, m_NVolume, m_Volume, m_MeasurementFrame,
                 m_DiffusionVectors, m_CommonDicomFieldsMap>>

\* CountCheck without its second check
CountCheckVolumesUnchecked(bValCount, bVecCount, numGradients, nVolume) ==
  IF bValCount # bVecCount THEN "exception" ELSE "ok"

\* the two checks of ReadGradientInformation on what was read
CountCheck(bValCount, bVecCount, numGradients, nVolume) ==
  IF bValCount # bVecCount THEN "exception"
  ELSE IF numGradients # nVolume THEN "exception"
  ELSE "ok"

\* ReadBVals and ReadBVecs: the file cannot be read, or the list it holds is
\* handed back with the number of its entries
ReadBVals ==
  {[status |-> "EXIT_FAILURE", list |-> <<>>, count |-> 0]}
    \cup {[status |-> "EXIT_SUCCESS", list |-> l, count |-> Len(l)] : l \in FileBValues}

ReadBVecs ==
  {[status |-> "EXIT_FAILURE", list |-> <<>>, count |-> 0]}
    \cup {[status |-> "EXIT_SUCCESS", list |-> l, count |-> Len(l)] : l \in FileBVectors}

ReadGradientInformation ==
  /\ Idle
  /\ \E bvals \in ReadBVals, bvecs \in ReadBVecs :
       LET BVals == bvals.list
           bValCount == bvals.count
           BVecs == bvecs.list
           bVecCount == bvecs.count
           numGradients == Len(BVals)
           call == [Call("ReadGradientInformation") EXCEPT
                      !.readB = BVals, !.readV = BVecs]
       IN IF bvals.status # "EXIT_SUCCESS"
          THEN /\ h' = [call EXCEPT !.result = "exception", !.readV = <<>>,
                                    !.name = <<"bval">>]
               /\ UNCHANGED members
          ELSE IF bvecs.status # "EXIT_SUCCESS"
          THEN /\ h' = [call EXCEPT !.result = "exception", !.name = <<"bvec">>]
               /\ UNCHANGED members
          ELSE IF CountCheck(bValCount, bVecCount, numGradients, m_NVolume) # "ok"
          THEN /\ h' = [call EXCEPT !.result = "exception"]
               /\ UNCHANGED members
          ELSE /\ m_DiffusionVectors' = BVecs
               /\ m_BValues' = BVals
               /\ h' = call
               /\ UNCHANGED <<m_SlicesPerVolume, m_NVolume, m_Volume,
                              m_MeasurementFrame, m_CommonDicomFieldsMap>>

ConvertBVectorsToIdentityMeasurementFrame ==
  /\ MayCall
  /\ IF Determinant(m_MeasurementFrame) = 0
     THEN /\ h' = [Call("ConvertBVectorsToIdentityMeasurementFrame") EXCEPT
                     !.result = "exception"]
          /\ UNCHANGED members
     ELSE /\ m_DiffusionVectors' =
               IdentityFrameVectors(m_DiffusionVectors, m_MeasurementFrame)
          /\ m_MeasurementFrame' = Identity
          /\ h' = Call("ConvertBVectorsToIdentityMeasurementFrame")
          /\ UNCHANGED <<m_SlicesPerVolume, m_NVolume, m_Volume, m_BValues,
                         m_CommonDicomFieldsMap>>

(***************************************************************************)
(* The reshaping operations.  They read m_NVolume only.                    *)
(***************************************************************************)
\* size3D[2] / nVolumes is computed before the divisibility check: with
\* nVolumes = 0 the division is undefined, and either traps (SIGFPE) or
\* yields a quotient (0 here) with which the check throws
ThreeDToFourDImage ==
  /\ h.op = ""
  /\ \E img \in Volumes3D :
       LET nVolumes == m_NVolume
           call == [Call("ThreeDToFourDImage") EXCEPT !.argImg = <<img>>]
       IN IF nVolumes = 0
          THEN \E outcome \in {"sigfpe", "exception"} :
                 h' = [call EXCEPT !.result = outcome, !.ub = TRUE]
          ELSE IF (img.size[3] \div nVolumes) * nVolumes # img.size[3]
          THEN h' = [call EXCEPT !.result = "exception"]
          ELSE h' = [call EXCEPT !.io = <<"Allocate", "memcpy">>,
                                 !.ret = <<Wrap4D(img, nVolumes)>>]
  /\ UNCHANGED members

\* called on the 4D image ThreeDToFourDImage has just returned
FourDToThreeDImage ==
  /\ h.op = "ThreeDToFourDImage"
  /\ h.ret # <<>>
  /\ LET img4D == h.ret[1]
         nVolumes == img4D.size[4]
         call == [Call("FourDToThreeDImage") EXCEPT
                    !.argImg = h.ret, !.origImg = h.argImg]
     IN IF img4D.size[3] * nVolumes # Unwrap3D(img4D).size[3]
        THEN h' = [call EXCEPT !.result = "exception"]
        ELSE h' = [call EXCEPT !.io = <<"Allocate", "memcpy">>,
                               !.ret = <<Unwrap3D(img4D)>>]
  /\ UNCHANGED members

(***************************************************************************)
(* The serialization operations.  h.io lists, in order, the files the call *)
(* has written.                                                            *)
(***************************************************************************)
\* FrameRejected without the absolute value
FrameRejectedSigned(frame) ==
  LET trace == frame[1][1] * frame[2][2] * frame[3][3]
  IN (trace - 1) * 10000 > 1

\* the product of the diagonal of the measurement frame, which the code
\* calls its trace, is off 1 by more than 1e-4
FrameRejected(frame) ==
  LET trace == frame[1][1] * frame[2][2] * frame[3][3]
  IN Abs(trace - 1) * 10000 > 1

\* matrix * matrix
MatMul(A, B) ==
  [i \in 1..3 |-> [j \in 1..3 |->
     A[i][1] * B[1][j] + A[i][2] * B[2][j] + A[i][3] * B[3][j]]]

GetSpacingMatrix ==
  [i \in 1..3 |-> [j \in 1..3 |-> IF i = j THEN m_Volume[1].spacing[i] ELSE 0]]

GetNRRDSpaceDirection == MatMul(m_Volume[1].direction, GetSpacingMatrix)

GetRows == m_Volume[1].size[1]
GetCols == m_Volume[1].size[2]

\* the columns of a matrix, as the header lists them
Columns(M) == [j \in 1..3 |-> <<M[1][j], M[2][j], M[3][j]>>]

Field(key, value) == [key |-> key, index |-> <<>>, value |-> value]

\* NRRDHeader with the measurement frame written before the reference to the
\* data file, and every gradient line carrying the first vector
NRRDHeaderFrameFirst(commentstring, nrrdSingleFileFormat, outputVolumeDataName) ==
  <<Field("NRRD0005", <<>>), Field("#", commentstring)>>
  \o (IF ~nrrdSingleFileFormat
      THEN <<Field("content", outputVolumeDataName)>> ELSE <<>>)
  \o <<Field("type", <<"short">>),
       Field("dimension", <<4>>),
       Field("space", <<"left-posterior-superior">>),
       Field("sizes", <<GetCols, GetRows, m_SlicesPerVolume, m_NVolume>>),
       Field("thicknesses", <<"NaN", "NaN", m_Volume[1].spacing[3], "NaN">>),
       Field("space directions", Columns(GetNRRDSpaceDirection)),
       Field("centerings", <<"cell", "cell", "cell", "???">>),
       Field("kinds", <<"space", "space", "space", "list">>),
       Field("endian", <<"little">>),
       Field("encoding", <<"raw">>),
       Field("space units", <<"mm", "mm", "mm">>),
       Field("space origin", m_Volume[1].origin)>>
  \o <<Field("measurement frame", Columns(m_MeasurementFrame))>>
  \o (IF ~nrrdSingleFileFormat
      THEN <<Field("data file", outputVolumeDataName)>> ELSE <<>>)
  \o [i \in 1..Len(m_CommonDicomFieldsMap) |->
        Field(m_CommonDicomFieldsMap[i][1], <<m_CommonDicomFieldsMap[i][2]>>)]
  \o <<Field("modality", <<"DWMRI">>),
       Field("DWMRI_b-value", <<ComputeMaxBvalue(m_BValues)>>)>>
  \o [k \in 1..Len(m_DiffusionVectors) |->
        [key |-> "DWMRI_gradient", index |-> <<k - 1>>,
         value |-> m_DiffusionVectors[1]]]

\* the lines of the header ManualWriteNRRDFile writes, in order
NRRDHeader(commentstring, nrrdSingleFileFormat, outputVolumeDataName) ==
  <<Field("NRRD0005", <<>>), Field("#", commentstring)>>
  \o (IF ~nrrdSingleFileFormat
      THEN <<Field("content", outputVolumeDataName)>> ELSE <<>>)
  \o <<Field("type", <<"short">>),
       Field("dimension", <<4>>),
       Field("space", <<"left-posterior-superior">>),
       Field("sizes", <<GetCols, GetRows, m_SlicesPerVolume, m_NVolume>>),
       Field("thicknesses", <<"NaN", "NaN", m_Volume[1].spacing[3], "NaN">>),
       Field("space directions", Columns(GetNRRDSpaceDirection)),
       Field("centerings", <<"cell", "cell", "cell", "???">>),
       Field("kinds", <<"space", "space", "space", "list">>),
       Field("endian", <<"little">>),
       Field("encoding", <<"raw">>),
       Field("space units", <<"mm", "mm", "mm">>),
       Field("space origin", m_Volume[1].origin)>>
  \o (IF ~nrrdSingleFileFormat
      THEN <<Field("data file", outputVolumeDataName)>> ELSE <<>>)
  \o <<Field("measurement frame", Columns(m_MeasurementFrame))>>
  \o [i \in 1..Len(m_CommonDicomFieldsMap) |->
        Field(m_CommonDicomFieldsMap[i][1], <<m_CommonDicomFieldsMap[i][2]>>)]
  \o <<Field("modality", <<"DWMRI">>),
       Field("DWMRI_b-value", <<ComputeMaxBvalue(m_BValues)>>)>>
  \o [k \in 1..Len(m_DiffusionVectors) |->
        [key |-> "DWMRI_gradient", index |-> <<k - 1>>,
         value |-> m_DiffusionVectors[k]]]

SidecarName(name, given, ext) ==
  IF given = <<>>
  THEN Append(Substr0(name, has_valid_nifti_extension(name)), ext)
  ELSE given

WriteFSLFormattedFileSet ==
  /\ Idle
  /\ \E name \in OutputNames,
        given \in {<<>>, <<"grad">>},
        writer \in {"ok", "throws"},
        bvalStatus \in {"EXIT_SUCCESS", "EXIT_FAILURE"},
        bvecStatus \in {"EXIT_SUCCESS", "EXIT_FAILURE"} :
       LET img4D == Wrap4D(m_Volume[1], m_NVolume)
           stamped == [img4D EXCEPT !.meta = StampXForm(img4D.meta)]
           call == [Call("WriteFSLFormattedFileSet") EXCEPT
                      !.name = name,
                      !.argImg = IF FrameRejected(m_MeasurementFrame)
                                 THEN <<img4D>> ELSE <<stamped>>]
           outputFSLBValFilename ==
             SidecarName(name, IF given = <<>> THEN <<>> ELSE Append(given, ".bval"),
                         ".bval")
           outputFSLBVecFilename ==
             SidecarName(name, IF given = <<>> THEN <<>> ELSE Append(given, ".bvec"),
                         ".bvec")
           image == <<"image", name>>
           bval == <<"bval", outputFSLBValFilename>>
           bvec == <<"bvec", outputFSLBVecFilename>>
       IN IF FrameRejected(m_MeasurementFrame)
          THEN /\ writer = "ok" /\ bvalStatus = "EXIT_SUCCESS"
               /\ bvecStatus = "EXIT_SUCCESS"
               /\ h' = [call EXCEPT !.result = "exception"]
          ELSE IF writer = "throws" \/ ~CanWriteImage(name)
          THEN /\ bvalStatus = "EXIT_SUCCESS" /\ bvecStatus = "EXIT_SUCCESS"
               /\ writer = "throws"
               /\ h' = [call EXCEPT !.result = "exception",
                                    !.writerThrew = TRUE]
          ELSE IF has_valid_nifti_extension(name) = npos
          THEN /\ bvalStatus = "EXIT_SUCCESS" /\ bvecStatus = "EXIT_SUCCESS"
               /\ h' = [call EXCEPT !.result = "exit", !.io = <<image>>]
          ELSE IF bvalStatus # "EXIT_SUCCESS"
          THEN /\ bvecStatus = "EXIT_SUCCESS"
               /\ h' = [call EXCEPT !.result = "exception", !.io = <<image>>,
                                    !.sidecarFailed = TRUE]
          ELSE IF bvecStatus # "EXIT_SUCCESS"
          THEN h' = [call EXCEPT !.result = "exception",
                                 !.io = <<image, bval>>,
                                 !.sidecarFailed = TRUE]
          ELSE h' = [call EXCEPT !.io = <<image, bval, bvec>>]
  /\ UNCHANGED members

ManualWriteNRRDFile ==
  /\ Idle
  /\ \E name \in OutputNames, writer \in {"ok", "throws"},
        commentstring \in {<<"# --conversionMode DicomToNrrd">>} :
       LET extensionPos == Find(name, <<".nhdr">>)
           nrrdSingleFileFormat == ~(extensionPos # npos)
           outputVolumeDataName ==
             IF extensionPos # npos
             THEN Append(Substr0(name, extensionPos), ".raw")
             ELSE <<>>
           call == [Call("ManualWriteNRRDFile") EXCEPT
                      !.name = name,
                      !.header = NRRDHeader(commentstring, nrrdSingleFileFormat,
                                            outputVolumeDataName)]
           header == <<"header", name>>
       IN IF nrrdSingleFileFormat
          THEN /\ writer = "ok"
               /\ h' = [call EXCEPT !.io = <<header>>,
                                    !.data = m_Volume[1].buffer]
          ELSE IF writer = "throws"
          THEN h' = [call EXCEPT !.io = <<header>>, !.writerThrew = TRUE]
          ELSE h' = [call EXCEPT
                       !.io = <<header, <<"image", outputVolumeDataName>> >>]
  /\ UNCHANGED members

Next ==
  \/ LoadFromDisk
  \/ Return
  \/ ConvertToSingleBValueScaledDiffusionVectors
  \/ ConvertToMutipleBValuesUnitScaledBVectors
  \/ SetBValues
  \/ ReadGradientInformation
  \/ ConvertBVectorsToIdentityMeasurementFrame
  \/ ThreeDToFourDImage
  \/ FourDToThreeDImage
  \/ WriteFSLFormattedFileSet
  \/ ManualWriteNRRDFile

Spec == Init /\ [][Next]_vars

(***************************************************************************)
(* The claims.                                                             *)
(***************************************************************************)
MutatingOps ==
  {"SetBValues", "ReadGradientInformation",
   "ConvertToSingleBValueScaledDiffusionVectors",
   "ConvertToMutipleBValuesUnitScaledBVectors",
   "ConvertBVectorsToIdentityMeasurementFrame"}

\* C1: after any sequence of the mutating operations the gradient-vector
\* list and the b-value list have the same length, and that length is
\* numVolumes.
C1_TableLengthsAgree ==
  (h.op \in MutatingOps /\ ~h.ub) =>
    /\ Len(m_DiffusionVectors) = Len(m_BValues)
    /\ Len(m_BValues) = m_NVolume

\* C2: ReadGradientInformation fails with an exception and leaves both lists
\* as they were when the number of b-values read differs from the number of
\* vectors read or from numVolumes; when it succeeds both lists are the lists
\* read.
C2_ReadGradientInformationAllOrNothing ==
  h.op = "ReadGradientInformation" =>
    /\ (Len(h.readB) # Len(h.readV) \/ Len(h.readB) # m_NVolume) =>
         /\ h.result = "exception"
         /\ m_DiffusionVectors = h.preVectors
         /\ m_BValues = h.preBValues
    /\ h.result = "ok" =>
         /\ m_DiffusionVectors = h.readV
         /\ m_BValues = h.readB
    /\ h.result # "ok" =>
         /\ m_DiffusionVectors = h.preVectors
         /\ m_BValues = h.preBValues

\* a read of 2 b-values and 3 vectors (or the like) into a loaded table
C2_Witness ==
  /\ h.op = "ReadGradientInformation"
  /\ Len(h.readB) = m_NVolume
  /\ Len(h.readV) = m_NVolume + 1
  /\ h.result = "exception"
  /\ h.preVectors # <<>>
  /\ h.preVectors # h.readV

\* the scale of vector k of a table: sqrt(b / max), or 0 when max is 0, in
\* double precision
SqrtOfRatio(b, max) == IF max = 0 THEN 0 ELSE ISqrt(RoundDiv(b * Unit, max) * Unit)

\* the largest element of a list of b-values that are not negative
MaxOf(bValues) ==
  IF bValues = <<>> THEN 0
  ELSE CHOOSE b \in {bValues[k] : k \in 1..Len(bValues)} :
         \A k \in 1..Len(bValues) : bValues[k] <= b

SingleOnTable ==
  /\ h.op = "ConvertToSingleBValueScaledDiffusionVectors"
  /\ Len(h.preVectors) = Len(h.preBValues)

\* C3 as claimed: after ConvertToSingleBValueScaledDiffusionVectors every
\* b-value is the maximum of the original b-values and vector k is the
\* original vector k times sqrt(originalB[k] / max).
C3_ScaledBySqrt ==
  SingleOnTable =>
    /\ Len(m_BValues) = Len(h.preBValues)
    /\ Len(m_DiffusionVectors) = Len(h.preVectors)
    /\ \A k \in 1..Len(h.preVectors) :
         /\ m_BValues[k] = MaxOf(h.preBValues)
         /\ \A i \in 1..3 :
              m_DiffusionVectors[k][i] =
                RoundDiv(h.preVectors[k][i]
                           * SqrtOfRatio(h.preBValues[k], MaxOf(h.preBValues)),
                         Unit)

\* C3 as amended: after ConvertToSingleBValueScaledDiffusionVectors on a
\* gradient table every b-value is the maximum of the original b-values and
\* vector k is the original vector k times sqrt(originalB[k] / max) rounded to
\* single precision (times 0 when max is 0); a vector whose original b-value
\* is 0 becomes the zero vector.
C3_ScaledBySinglePrecisionSqrt ==
  SingleOnTable =>
    /\ Len(m_BValues) = Len(h.preBValues)
    /\ Len(m_DiffusionVectors) = Len(h.preVectors)
    /\ \A k \in 1..Len(h.preVectors) :
         /\ m_BValues[k] = MaxOf(h.preBValues)
         /\ \A i \in 1..3 :
              m_DiffusionVectors[k][i] =
                RoundDiv(h.preVectors[k][i]
                           * (RoundDiv(SqrtOfRatio(h.preBValues[k],
                                                   MaxOf(h.preBValues)),
                                       FloatStep) * FloatStep),
                         Unit)
         /\ h.preBValues[k] = 0 => m_DiffusionVectors[k] = <<0, 0, 0>>

\* a table with a baseline whose vector is not zero, beside a weighted
\* gradient
C3_Witness ==
  /\ SingleOnTable
  /\ \E k, j \in 1..Len(h.preVectors) :
       /\ h.preBValues[k] = 0
       /\ h.preVectors[k] # <<0, 0, 0>>
       /\ h.preBValues[j] > 0
       /\ h.preVectors[j] # <<0, 0, 0>>

MultipleOnTable ==
  /\ h.op = "ConvertToMutipleBValuesUnitScaledBVectors"
  /\ Len(h.preVectors) = Len(h.preBValues)

\* |v| = 1, to the resolution of the numbers
UnitLength(v) == Abs(SquaredMagnitude(v) - Unit * Unit) <= 4 * Unit

\* v points where u points
SameDirection(v, u) ==
  \A i \in 1..3 : Abs(v[i] * ISqrt(SquaredMagnitude(u)) - u[i] * Unit)
                    <= ISqrt(SquaredMagnitude(u))

\* round(maxB * m^2), m the magnitude of v, taken as 1 when |m^2 - 1| < 0.01
ExpectedMultipleBValue(v, maxB) ==
  LET mag == ISqrt(SquaredMagnitude(v))
      m == IF Abs(RoundDiv(mag * mag, Unit) - Unit) * 100 < Unit THEN Unit ELSE mag
  IN RoundDiv(((maxB * m) \div Unit) * m + RoundDiv(((maxB * m) % Unit) * m, Unit),
              Unit)

\* C4 as claimed: after ConvertToMutipleBValuesUnitScaledBVectors every
\* vector has unit length and bValues[k] = round(maxB * m^2).
C4_AllUnitLength ==
  MultipleOnTable =>
    \A k \in 1..Len(h.preVectors) :
      /\ UnitLength(m_DiffusionVectors[k])
      /\ m_BValues[k] = ExpectedMultipleBValue(h.preVectors[k], MaxOf(h.preBValues))

\* C4 as amended: after ConvertToMutipleBValuesUnitScaledBVectors every
\* vector that was not zero has unit length and its old direction, a zero
\* vector is still zero, and bValues[k] = round(maxB * m^2), m the magnitude
\* before the call, taken as 1 when |m^2 - 1| < 0.01.
C4_NonZeroUnitLength ==
  MultipleOnTable =>
    /\ Len(m_BValues) = Len(h.preBValues)
    /\ Len(m_DiffusionVectors) = Len(h.preVectors)
    /\ \A k \in 1..Len(h.preVectors) :
         /\ h.preVectors[k] # <<0, 0, 0>> =>
              /\ UnitLength(m_DiffusionVectors[k])
              /\ SameDirection(m_DiffusionVectors[k], h.preVectors[k])
         /\ h.preVectors[k] = <<0, 0, 0>> => m_DiffusionVectors[k] = <<0, 0, 0>>
         /\ m_BValues[k] = ExpectedMultipleBValue(h.preVectors[k], MaxOf(h.preBValues))

\* a table with a zero vector and a vector within 1% of unit length whose
\* b-value the snap decides
C4_Witness ==
  /\ MultipleOnTable
  /\ MaxOf(h.preBValues) > 0
  /\ \E k, j \in 1..Len(h.preVectors) :
       /\ h.preVectors[k] = <<0, 0, 0>>
       /\ SquaredMagnitude(h.preVectors[j]) # Unit * Unit
       /\ m_BValues[j] = MaxOf(h.preBValues)
       /\ m_BValues[j] # RoundDiv(MaxOf(h.preBValues)
                                    * RoundDiv(SquaredMagnitude(h.preVectors[j]), Unit),
                                  Unit)

\* C5: after ConvertBVectorsToIdentityMeasurementFrame the frame is the
\* identity and every vector is inverse(previous frame) times the previous
\* vector; a second call leaves the vectors and the frame as the first left
\* them.
C5_IdentityFrameIdempotent ==
  (h.op = "ConvertBVectorsToIdentityMeasurementFrame" /\ h.result = "ok") =>
    /\ m_MeasurementFrame = Identity
    /\ Len(m_DiffusionVectors) = Len(h.preVectors)
    /\ \A k \in 1..Len(h.preVectors) :
         MatVec(h.preFrame, m_DiffusionVectors[k]) = h.preVectors[k]
    /\ h.prevOp = "ConvertBVectorsToIdentityMeasurementFrame" =>
         /\ m_DiffusionVectors = h.preVectors
         /\ m_MeasurementFrame = h.preFrame

\* the second of two calls in a row, the first of which turned the vectors
C5_Witness ==
  /\ h.op = "ConvertBVectorsToIdentityMeasurementFrame"
  /\ h.prevOp = "ConvertBVectorsToIdentityMeasurementFrame"
  /\ h.origFrame = Rz90
  /\ h.origVectors # m_DiffusionVectors

\* C6: for a 3D volume whose slice count is a multiple of numVolumes,
\* FourDToThreeDImage(ThreeDToFourDImage(V)) has the size, spacing, origin,
\* direction and samples of V, and the 4D volume between them has size
\* (cols, rows, totalSlices / numVolumes, numVolumes).
C6_ReshapeRoundTrip ==
  /\ (h.op = "ThreeDToFourDImage" /\ m_NVolume > 0
        /\ h.argImg[1].size[3] % m_NVolume = 0) =>
       /\ h.result = "ok"
       /\ h.ret # <<>>
       /\ h.ret[1].size = <<h.argImg[1].size[1], h.argImg[1].size[2],
                            h.argImg[1].size[3] \div m_NVolume, m_NVolume>>
  /\ h.op = "FourDToThreeDImage" =>
       /\ h.result = "ok"
       /\ h.ret # <<>>
       /\ h.argImg[1].size = <<h.origImg[1].size[1], h.origImg[1].size[2],
                               h.origImg[1].size[3] \div m_NVolume, m_NVolume>>
       /\ h.ret[1].size = h.origImg[1].size
       /\ h.ret[1].spacing = h.origImg[1].spacing
       /\ h.ret[1].origin = h.origImg[1].origin
       /\ h.ret[1].direction = h.origImg[1].direction
       /\ h.ret[1].buffer = h.origImg[1].buffer

\* a volume of MaxSlices slices in more than one volume, there and back
C6_Witness ==
  /\ h.op = "FourDToThreeDImage"
  /\ h.ret # <<>>
  /\ m_NVolume > 1
  /\ h.origImg[1].size[3] > m_NVolume
  /\ h.origImg[1].direction # Identity

\* s is no multiple of n
NotAMultiple(s, n) == \A q \in 0..s : q * n # s

\* C7: ThreeDToFourDImage raises an error and returns no 4D volume whenever
\* the slice count is not a multiple of numVolumes, before a 4D raster is
\* allocated or a sample copied.
C7_NonDivisibleRaises ==
  (h.op = "ThreeDToFourDImage"
     /\ NotAMultiple(h.argImg[1].size[3], m_NVolume)) =>
    /\ h.result = "exception"
    /\ h.ret = <<>>
    /\ h.io = <<>>

C9_UnrecognizedNameWritesNothing ==
  (h.op = "WriteFSLFormattedFileSet"
     /\ h.preFrame = Identity
     /\ \A i \in 1..Len(h.name) : h.name[i] # ".nii") =>
    /\ h.result # "ok"
    /\ h.io = <<>>

\* C10: a serialization operation whose image writer throws ends with the
\* exception raised to its caller.
C10_WriterFailureRaised ==
  h.writerThrew => h.result = "exception"

\* the call that has just returned met one of the fatal conditions of the
\* core
FatalError ==
  \/ /\ h.op = "ReadGradientInformation"
     /\ (Len(h.readB) # Len(h.readV) \/ Len(h.readB) # m_NVolume)
  \/ /\ h.op = "WriteFSLFormattedFileSet"
     /\ \/ \A i \in 1..Len(h.name) : h.name[i] # ".nii"
        \/ h.preFrame[1][1] * h.preFrame[2][2] * h.preFrame[3][3] # 1
        \/ h.sidecarFailed
  \/ /\ h.op = "ThreeDToFourDImage"
     /\ m_NVolume > 0
     /\ h.argImg[1].size[3] % m_NVolume # 0

\* C11: every fatal error of the core (mismatched counts, a gradient count
\* that is not the volume count, an unrecognized output extension, a slice
\* count that does not divide, a rejected frame, a sidecar write failure) ends
\* the operation with an exception raised to the caller; none ends the
\* process and none lets the operation go on.
C11_FatalErrorsRaise ==
  /\ h.result # "exit"
  /\ FatalError => h.result = "exception"

\* the name of the data file beside a header file: its last piece replaced
\* by .raw
SiblingRaw(name) == Append(SubSeq(name, 1, Len(name) - 1), ".raw")

\* the lines of a header that refer to a data file
DataFileLines(header) == SelectSeq(header, LAMBDA f : f.key = "data file")

\* C12: ManualWriteNRRDFile chooses its layout from the name: the single-file
\* extension (.nrrd) selects inline encoding (the samples follow the header,
\* no data file), any other extension selects detached encoding (the header
\* refers to, and the operation writes, a sibling .raw data file).
C12_LayoutFromName ==
  h.op = "ManualWriteNRRDFile" =>
    IF h.name[Len(h.name)] = ".nrrd"
    THEN /\ h.data # <<>>
         /\ DataFileLines(h.header) = <<>>
         /\ h.io = << <<"header", h.name>> >>
    ELSE /\ h.data = <<>>
         /\ Len(DataFileLines(h.header)) = 1
         /\ DataFileLines(h.header)[1].value = SiblingRaw(h.name)
         /\ ~h.writerThrew =>
              h.io = << <<"header", h.name>>, <<"image", SiblingRaw(h.name)>> >>

\* the lines of a header other than those the field order leaves out
ListedFields(header) ==
  SelectSeq(header,
            LAMBDA f : f.key \notin {"content", "type", "centerings", "kinds"})

\* the keys that open every header, in order
LeadingKeys(detached) ==
  <<"NRRD0005", "#", "dimension", "space", "sizes", "thicknesses",
    "space directions", "endian", "encoding", "space units", "space origin">>
  \o (IF detached THEN <<"data file">> ELSE <<>>)
  \o <<"measurement frame">>

\* C13: the header ManualWriteNRRDFile writes has its fields in one order:
\* format tag, comment, dimension, space, sizes, thicknesses, space
\* directions, endian, encoding, space units, space origin, the data file
\* (exactly when the layout is detached), measurement frame, every common
\* DICOM field as key:=value, modality:=DWMRI, the largest b-value of the
\* table, and one gradient line per vector, in table order, line k with
\* index k and vector k.
C13_HeaderFieldOrder ==
  h.op = "ManualWriteNRRDFile" =>
    LET listed == ListedFields(h.header)
        leading == LeadingKeys(h.data = <<>>)
        F == Len(leading)
        nd == Len(m_CommonDicomFieldsMap)
        nv == Len(m_DiffusionVectors)
    IN /\ Len(listed) = F + nd + 2 + nv
       /\ \A i \in 1..F : listed[i].key = leading[i]
       /\ \A i \in 1..nd :
            listed[F + i] = Field(m_CommonDicomFieldsMap[i][1],
                                  <<m_CommonDicomFieldsMap[i][2]>>)
       /\ listed[F + nd + 1] = Field("modality", <<"DWMRI">>)
       /\ listed[F + nd + 2] = Field("DWMRI_b-value", <<MaxOf(m_BValues)>>)
       /\ \A k \in 1..nv :
            /\ listed[F + nd + 2 + k].key = "DWMRI_gradient"
            /\ listed[F + nd + 2 + k].index = <<k - 1>>
            /\ listed[F + nd + 2 + k].value = m_DiffusionVectors[k]

\* a detached header of a table of different vectors and b-values
C13_Witness ==
  /\ h.op = "ManualWriteNRRDFile"
  /\ h.data = <<>>
  /\ Len(h.io) = 2
  /\ Len(m_CommonDicomFieldsMap) > 1
  /\ Len(m_DiffusionVectors) > 1
  /\ m_DiffusionVectors[1] # m_DiffusionVectors[2]
  /\ m_BValues = <<MaxB \div 2, MaxB>>

\* C14: the sizes field of the header ManualWriteNRRDFile writes lists the
\* size of the volume along axis 0 (cols), its size along axis 1 (rows),
\* slicesPerVolume and numVolumes, also when the slices are not square.
C14_SizesField ==
  h.op = "ManualWriteNRRDFile" =>
    \E i \in 1..Len(h.header) :
      /\ h.header[i].key = "sizes"
      /\ h.header[i].value = <<m_Volume[1].size[1], m_Volume[1].size[2],
                               m_SlicesPerVolume, m_NVolume>>

\* the second of two table operations in a row, on a gradient table
Chained(first, second) ==
  /\ h.op = second
  /\ h.prevOp = first
  /\ ~h.ub
  /\ Len(h.origVectors) = Len(h.origBValues)

\* C15: ConvertToMutipleBValuesUnitScaledBVectors followed by
\* ConvertToSingleBValueScaledDiffusionVectors does not recover every table:
\* of a table whose b-values are not all the same, the vectors or the
\* b-values after the two calls differ from the original ones.
C15_MultipleThenSingleLossy ==
  (/\ Chained("ConvertToMutipleBValuesUnitScaledBVectors",
              "ConvertToSingleBValueScaledDiffusionVectors")
   /\ \E j, k \in 1..Len(h.origBValues) : h.origBValues[j] # h.origBValues[k]) =>
    <<m_DiffusionVectors, m_BValues>> # <<h.origVectors, h.origBValues>>

\* a table of unit vectors with two b-values, both changed by the two calls
C15_Witness ==
  /\ Chained("ConvertToMutipleBValuesUnitScaledBVectors",
             "ConvertToSingleBValueScaledDiffusionVectors")
  /\ h.origVectors = <<V68, AxisX>>
  /\ h.origBValues = <<MaxB \div 2, MaxB>>
  /\ m_BValues # h.origBValues
  /\ m_DiffusionVectors = h.origVectors

\* the operations that change the gradient table but not the frame
FramePreservingOps ==
  {"ConvertToSingleBValueScaledDiffusionVectors",
   "ConvertToMutipleBValuesUnitScaledBVectors",
   "SetBValues", "ReadGradientInformation"}

\* the serialization and the reshape operations
ReadOnlyOps ==
  {"ManualWriteNRRDFile", "WriteFSLFormattedFileSet",
   "ThreeDToFourDImage", "FourDToThreeDImage"}

\* C16: the measurement frame is the identity after construction and no
\* operation of the core other than ConvertBVectorsToIdentityMeasurementFrame
\* changes it: the scaling transforms, SetBValues and ReadGradientInformation
\* leave the frame and the volume as they are, the serialization and the
\* reshape operations leave the vectors, the b-values, the frame and the
\* volume as they are.
C16_FrameChangedOnlyByIdentityConversion ==
  /\ m_MeasurementFrame = << <<1, 0, 0>>, <<0, 1, 0>>, <<0, 0, 1>> >>
  /\ [][/\ h'.op \in FramePreservingOps =>
             /\ m_MeasurementFrame' = m_MeasurementFrame
             /\ m_Volume' = m_Volume
        /\ h'.op \in ReadOnlyOps =>
             /\ m_DiffusionVectors' = m_DiffusionVectors
             /\ m_BValues' = m_BValues
             /\ m_MeasurementFrame' = m_MeasurementFrame
             /\ m_Volume' = m_Volume
        /\ (m_Volume # <<>> /\ m_MeasurementFrame' # m_MeasurementFrame) =>
             h'.op = "ConvertBVectorsToIdentityMeasurementFrame"]_vars

\* a scaling under a frame that is not the identity, which changed the
\* vectors and left the frame
C16_Witness ==
  /\ h.op = "ConvertToSingleBValueScaledDiffusionVectors"
  /\ m_MeasurementFrame = Rz90
  /\ h.preFrame = Rz90
  /\ m_DiffusionVectors # h.preVectors

\* the table the first of two chained calls started from: unit vectors, and
\* b-values that are not negative with a positive maximum
UnitTable ==
  /\ \A k \in 1..Len(h.origVectors) :
       SquaredMagnitude(h.origVectors[k]) = Unit * Unit
  /\ \A k \in 1..Len(h.origBValues) : h.origBValues[k] >= 0
  /\ MaxOf(h.origBValues) > 0

\* b-value k after the two calls: the original one, or the maximum when the
\* original one is within 1% of the maximum
Restored(k) ==
  LET max == MaxOf(h.origBValues)
  IN m_BValues[k] = IF Abs(h.origBValues[k] - max) * 100 >= max
                    THEN h.origBValues[k] ELSE max

====
